---- MODULE Spec2Model ----
(***************************************************************************)
(* Model of SN_VENDEDOR.py: a Streamlit form ("Sugestao do Vendedor") over *)
(* an Access database reached through pyodbc.                              *)
(*                                                                         *)
(* st.session_state is the record ss.  Every user event re-executes the   *)
(* script from its first line; st.rerun() ends the current execution and   *)
(* schedules another one (pc = "rerun").  Python strings are sequences of  *)
(* one-character strings, so that strip() and replace() are computed.      *)
(* An Optional value is None (the empty tuple) or Some(x) (a 1-tuple).     *)
(***************************************************************************)
EXTENDS Integers, Sequences, FiniteSets, TLC

VARIABLES
    ss,      \* st.session_state
    pagina,  \* the value of the sidebar radio "Navegação"
    cache,   \* the st.cache_data entry of carregar_sugestoes: None or Some(df)
    pc,      \* "interactive": the script ended and waits for an event;
             \* "rerun": st.rerun() was called; "success_msg": inside time.sleep(5)
    tela,    \* the event being served, the page drawn and the messages on it
    gw       \* the gateway call made while serving the event

vars == <<ss, pagina, cache, pc, tela, gw>>

\* ------------------------------------------------------------------ bounds
\* Largest number of consecutive lock conflicts the backend answers with.
MaxLocks == 5

\* Largest number of report filters set to something else than "(Todos)".
MaxFiltros == 2

\* ------------------------------------------------------------ Python values
None == <<>>
Some(x) == <<x>>

Range(seq) == {seq[k] : k \in 1..Len(seq)}

\* str.strip(): leading and trailing blanks removed.
RECURSIVE lstrip(_)
lstrip(s) == IF s # <<>> /\ Head(s) = " " THEN lstrip(Tail(s)) ELSE s

RECURSIVE rstrip(_)
rstrip(s) == IF s # <<>> /\ s[Len(s)] = " " THEN rstrip(SubSeq(s, 1, Len(s) - 1)) ELSE s

strip(s) == rstrip(lstrip(s))

\* str.replace(ch, ""): every occurrence of ch removed.
RECURSIVE replace(_, _)
replace(s, ch) ==
    IF s = <<>> THEN <<>>
    ELSE IF Head(s) = ch THEN replace(Tail(s), ch)
    ELSE <<Head(s)>> \o replace(Tail(s), ch)

\* ----------------------------------------------------------------- backend
\* What the Access file answers during one gateway call: its first `locks`
\* connection attempts fail with the exclusive-lock error (-1302), later
\* attempts fail with another pyodbc.Error when `down`, and succeed otherwise.
Backend == [locks : 0..MaxLocks, down : BOOLEAN]

Attempt(b, i) ==
    IF i < b.locks THEN "lock" ELSE IF b.down THEN "error" ELSE "ok"

Healthy == [locks |-> 0, down |-> FALSE]

\* The backends the pages are run against: healthy, down, one lock conflict,
\* and locked for every attempt.
PageBackend ==
    {Healthy, [locks |-> 0, down |-> TRUE], [locks |-> 1, down |-> FALSE],
     [locks |-> MaxLocks, down |-> FALSE]}

\* Rows of SN_QUERY_REFERENCIA (CODIGO, DESCRICAO) by REFERENCIA; a column
\* value is NULL (None) or a text.
QueryReferencia(ref) ==
    CASE ref = <<"A">> -> << <<Some(<<"0", ".", "1">>), Some(<<"P">>)>>,
                             <<Some(<<"0", "1">>), Some(<<"P", " ">>)>>,
                             <<Some(<<"0", ",", "2">>), None>> >>
      [] ref = <<"B">> -> << <<Some(<<"0", "2">>), Some(<<" ">>)>>,
                             <<None, None>> >>
      [] OTHER -> <<>>

\* Rows of CADASTRO_USUARIO by LOGIN: the columns the cursor describes for
\* the row (upper-cased) with their values; <<>> is "no row".
CadastroUsuario(login) ==
    CASE login = <<"a", "n", "a">> ->
            Some([NOME |-> Some(<<"A", "n", "a">>), SENHA |-> Some(<<"p", "w">>)])
      [] login = <<"b", "o", "b">> ->
            Some([NOME_USUARIO |-> None, PASSWORD |-> Some(<<"1", "2">>)])
      [] login = <<"e", "v", "e">> ->
            Some([NOME |-> Some(<<"E", "v", "e">>)])
      [] login = <<"n", "i", "l">> ->
            Some([SENHA |-> None, PASSWORD |-> Some(<<"p", "w">>)])
      [] OTHER -> None

\* ----------------------------------------------------------------- gateway
\* The record of one gateway call: the operation, its arguments, the backend
\* it met, the attempts made, the time.sleep() calls between attempts (in
\* half seconds), how it ended ("ok" = returned, "lock"/"error" = raised the
\* pyodbc.Error) and the value returned.
NoCall ==
    [op |-> "none", args |-> <<>>, backend |-> <<>>, attempts |-> 0,
     waits |-> <<>>, result |-> "ok", value |-> <<>>]

GwCall(op, args, b, attempts, waits, result, value) ==
    [op |-> op, args |-> args, backend |-> Some(b), attempts |-> attempts,
     waits |-> waits, result |-> result, value |-> value]

\* carregar_sugestoes, lines 135-136: attempts and first wait (half seconds).
tentativas == 5
espera == 1

\* Seeded fault: insert_sugestao wrapped in the retry loop of carregar_sugestoes.
insert_sugestao_retry(row, b) ==
    LET n == IF b.locks < tentativas THEN b.locks + 1 ELSE tentativas
    IN  GwCall("insert", row, b, n, [i \in 1..(n - 1) |-> espera * 2 ^ (i - 1)],
               Attempt(b, n - 1), <<>>)

\* insert_sugestao: one connection, one execute, one commit.
insert_sugestao(row, b) ==
    GwCall("insert", row, b, 1, <<>>, Attempt(b, 0), <<>>)

\* authenticate_user: (autenticado, nome_exibicao_ou_login), or the
\* pyodbc.Error of the connection raised to the caller.
PyOr(a, b) == IF a # None /\ a[1] # <<>> THEN a ELSE b

DataGet(data, key) == IF key \in DOMAIN data THEN data[key] ELSE None

senha_real(data) ==
    IF "SENHA" \in DOMAIN data THEN data.SENHA
    ELSE IF "PASSWORD" \in DOMAIN data THEN data.PASSWORD
    ELSE IF "SENHA_USUARIO" \in DOMAIN data THEN data.SENHA_USUARIO
    ELSE None

\* Seeded fault: the password comparison of line 111 left out.
authenticate_user_qualquer_senha(login, senha, b) ==
    LET args == <<login, senha>>
        fail == [ok |-> FALSE, nome |-> None]
        row == CadastroUsuario(login)
    IN  IF login = <<>> THEN GwCall("authenticate", args, b, 0, <<>>, "ok", fail)
        ELSE IF Attempt(b, 0) # "ok"
             THEN GwCall("authenticate", args, b, 1, <<>>, Attempt(b, 0), <<>>)
        ELSE IF row = None \/ senha_real(row[1]) = None
             THEN GwCall("authenticate", args, b, 1, <<>>, "ok", fail)
        ELSE GwCall("authenticate", args, b, 1, <<>>, "ok",
                    [ok |-> TRUE,
                     nome |-> PyOr(DataGet(row[1], "NOME"),
                                   PyOr(DataGet(row[1], "NOME_USUARIO"), Some(login)))])

authenticate_user(login, senha, b) ==
    LET args == <<login, senha>>
        fail == [ok |-> FALSE, nome |-> None]
    IN  IF login = <<>> THEN GwCall("authenticate", args, b, 0, <<>>, "ok", fail)
        ELSE IF Attempt(b, 0) # "ok"
             THEN GwCall("authenticate", args, b, 1, <<>>, Attempt(b, 0), <<>>)
        ELSE LET row == CadastroUsuario(login)
             IN  IF row = None THEN GwCall("authenticate", args, b, 1, <<>>, "ok", fail)
                 ELSE LET data == row[1]
                          nome == PyOr(DataGet(data, "NOME"),
                                       PyOr(DataGet(data, "NOME_USUARIO"), Some(login)))
                      IN  IF senha_real(data) = None
                          THEN GwCall("authenticate", args, b, 1, <<>>, "ok", fail)
                          ELSE GwCall("authenticate", args, b, 1, <<>>, "ok",
                                      [ok |-> senha_real(data)[1] = senha, nome |-> nome])

\* --------------------------------------------------------------- DataFrame
\* The cells of a DataFrame are tagged Python values: None (NULL), a str, an
\* int, a datetime (modelled by its day and month, the year and the time of
\* day being the same for all) and the NaT of pandas.
Null == [t |-> "None"]
Str(s) == [t |-> "str", v |-> s]
PyInt(n) == [t |-> "int", v |-> n]
Datetime(d, m) == [t |-> "datetime", dia |-> d, mes |-> m]
NaT == [t |-> "NaT"]

\* pd.isna
isna(x) == x.t \in {"None", "NaT"}

\* The columns of the SELECT of carregar_sugestoes, lines 120-131.
Colunas ==
    <<"REFERENCIA", "QUANTIDADE", "MARCA", "TIPO_SUGESTAO", "COMENTARIO_VENDEDOR",
      "VENDEDOR", "ACAO_COMPRADOR", "COMENTARIO_COMPRADOR", "ORDEM_COMPRA",
      "CODIGO", "DESCRICAO_CODIGO", "DATA_LANCAMENTO">>

\* df.rename(columns=...), lines 147-160 (labels written without accents).
Rotulos ==
    [REFERENCIA |-> "Referencia", QUANTIDADE |-> "Quantidade", MARCA |-> "Marca",
     TIPO_SUGESTAO |-> "Tipo Sugestao", COMENTARIO_VENDEDOR |-> "Comentario Vendedor",
     VENDEDOR |-> "Vendedor", ACAO_COMPRADOR |-> "Acao Comprador",
     COMENTARIO_COMPRADOR |-> "Comentario Comprador", ORDEM_COMPRA |-> "Ordem Compra",
     CODIGO |-> "Codigo", DESCRICAO_CODIGO |-> "Descricao Codigo",
     DATA_LANCAMENTO |-> "Data Lancamento"]

rename_coluna(c) == IF c \in DOMAIN Rotulos THEN Rotulos[c] ELSE c

\* A DataFrame: its column names in order, and its rows as functions from
\* the column names to cells.
DataFrame(columns, rows) == [columns |-> columns, rows |-> rows]

rename(df) ==
    LET cols == [i \in 1..Len(df.columns) |-> rename_coluna(df.columns[i])]
        de(c) == CHOOSE o \in Range(df.columns) : rename_coluna(o) = c
    IN  DataFrame(cols, [k \in 1..Len(df.rows) |->
                            [c \in Range(cols) |-> df.rows[k][de(c)]]])

\* The decimal digits of a text, as a number; -1 when it is not 1 or 2 digits.
Digitos == <<"0", "1", "2", "3", "4", "5", "6", "7", "8", "9">>

digito(ch) == (CHOOSE i \in 1..10 : Digitos[i] = ch) - 1

numero(s) ==
    IF Len(s) \in 1..2 /\ Range(s) \subseteq Range(Digitos)
    THEN IF Len(s) = 1 THEN digito(s[1]) ELSE 10 * digito(s[1]) + digito(s[2])
    ELSE -1

\* pd.to_datetime(..., errors="coerce", dayfirst=True) of one cell: a datetime
\* is kept, a text "d/m" with a day and a month is read day first, and
\* whatever else becomes NaT.
to_datetime(x) ==
    IF x.t = "datetime" THEN x
    ELSE IF x.t = "str" /\ "/" \in Range(x.v)
    THEN LET p == CHOOSE i \in 1..Len(x.v) :
                     x.v[i] = "/" /\ \A j \in 1..(i - 1) : x.v[j] # "/"
             d == numero(SubSeq(x.v, 1, p - 1))
             m == numero(SubSeq(x.v, p + 1, Len(x.v)))
         IN  IF d \in 1..31 /\ m \in 1..12 THEN Datetime(d, m) ELSE NaT
    ELSE NaT

\* strftime("%d/%m/..."): two digits each; NaT gives NaN, which fillna("")
\* replaces by the empty text.
pad2(n) == <<Digitos[(n \div 10) + 1], Digitos[(n % 10) + 1]>>

strftime(x) == IF x.t = "NaT" THEN NaT ELSE Str(pad2(x.dia) \o <<"/">> \o pad2(x.mes))

fillna(x, s) == IF isna(x) THEN Str(s) ELSE x

\* str(x) of a cell that is a str or an int below 100.
str(x) ==
    IF x.t = "str" THEN x.v
    ELSE IF x.v < 10 THEN <<Digitos[x.v + 1]>> ELSE pad2(x.v)

\* Line 169: the lambda applied to the column "Código".
codigo_sem_separadores(x) ==
    IF isna(x) THEN Str(<<>>) ELSE Str(strip(replace(replace(str(x), "."), ",")))

\* Seeded fault: the date is written month first.
formatar_data_mes_primeiro(x) ==
    LET dt == to_datetime(x)
    IN  IF dt.t = "NaT" THEN Str(<<>>) ELSE Str(pad2(dt.mes) \o <<"/">> \o pad2(dt.dia))

\* Lines 164-165: the column "Data Lançamento".
formatar_data(x) == fillna(strftime(to_datetime(x)), <<>>)

\* Lines 146-169: what carregar_sugestoes does to the rows it fetched.
normalizar(df) ==
    LET df1 == rename(df)
    IN  DataFrame(df1.columns,
                  [k \in 1..Len(df1.rows) |->
                     [c \in Range(df1.columns) |->
                        IF c = "Data Lancamento"
                        THEN formatar_data(df1.rows[k][c])
                        ELSE IF c = "Codigo"
                        THEN codigo_sem_separadores(df1.rows[k][c])
                        ELSE df1.rows[k][c]]])

\* Rows of SN_SUGESTAO_VENDEDOR: what the form inserts (reference, brand,
\* seller, code) and what the buyers add later (action, comment, order).
VENDA_CASADA == <<"V", "E", "N", "D", "A", "_", "C", "A", "S", "A", "D", "A">>

Linha(ref, marca, acao, coment, oc, cod, data) ==
    [REFERENCIA |-> ref, QUANTIDADE |-> PyInt(1), MARCA |-> marca,
     TIPO_SUGESTAO |-> Str(VENDA_CASADA), COMENTARIO_VENDEDOR |-> Null,
     VENDEDOR |-> Str(<<"A", "n", "a">>), ACAO_COMPRADOR |-> acao,
     COMENTARIO_COMPRADOR |-> coment, ORDEM_COMPRA |-> oc, CODIGO |-> cod,
     DESCRICAO_CODIGO |-> Str(<<"P">>), DATA_LANCAMENTO |-> data]

\* The table the pages are run against.
SugestaoVendedor ==
    << Linha(Str(<<"A">>), Str(<<"M">>), Null, Null, Null,
             Str(<<"0", ".", "1">>), Datetime(2, 1)),
       Linha(Str(<<"B">>), Str(<<"M">>), Str(<<"o", "k">>), Str(<<"x">>), Str(<<"1">>),
             Str(<<"0", "2">>), Null) >>

\* A table the buyers have written to: texts that differ in case or in
\* surrounding blanks, blank texts, dates kept as text.
TabelaComprador ==
    << Linha(Str(<<"b">>), Str(<<"M">>), Str(<<"o", "k">>), Str(<<" ", "x">>),
             Str(<<"1">>), Str(<<",", "1">>), Str(<<"2", "/", "1">>)),
       Linha(Str(<<"A">>), Str(<<"M", " ">>), Str(<<"O", "k">>), Str(<<"x">>),
             Str(<<"1">>), Null, Str(<<"x">>)),
       Linha(Str(<<"a">>), Str(<<" ">>), Str(<<"o", "k">>), Null,
             Null, Str(<<"1", " ">>), Str(<<>>)) >>

\* A table whose only row has a buyer's action written with a blank after it.
TabelaComBranco ==
    << Linha(Str(<<"A">>), Str(<<"M">>), Str(<<"o", "k", " ">>), Null, Null,
             Str(<<"1">>), Null) >>

Tabelas == {<<>>, SugestaoVendedor, TabelaComprador, TabelaComBranco}

\* Seeded fault: every pyodbc.Error is retried, not only the lock conflict.
RECURSIVE carregar_loop_qualquer_erro(_, _, _, _, _)
carregar_loop_qualquer_erro(tabela, b, i, wait, waits) ==
    LET r == Attempt(b, i)
    IN  IF r = "ok" THEN GwCall("sugestoes", <<>>, b, i + 1, waits, "ok",
                                normalizar(DataFrame(Colunas, tabela)))
        ELSE IF i < tentativas - 1
             THEN carregar_loop_qualquer_erro(tabela, b, i + 1, wait * 2,
                                              Append(waits, wait))
        ELSE GwCall("sugestoes", <<>>, b, i + 1, waits, r, <<>>)

\* carregar_sugestoes: the for loop from its i-th pass on, `wait` being the
\* current value of espera and `waits` the sleeps made so far; the rows
\* fetched are those of `tabela`.
RECURSIVE carregar_loop(_, _, _, _, _)
carregar_loop(tabela, b, i, wait, waits) ==
    LET r == Attempt(b, i)
    IN  IF r = "ok" THEN GwCall("sugestoes", <<>>, b, i + 1, waits, "ok",
                                normalizar(DataFrame(Colunas, tabela)))
        ELSE IF r = "lock" /\ i < tentativas - 1
             THEN carregar_loop(tabela, b, i + 1, wait * 2, Append(waits, wait))
        ELSE GwCall("sugestoes", <<>>, b, i + 1, waits, r, <<>>)

carregar_sugestoes(tabela, b) == carregar_loop(tabela, b, 0, espera, <<>>)

\* carregar_itens_por_referencia: "remove duplicados preservando ordem".
RECURSIVE dedup(_, _)
dedup(itens, seen) ==
    IF itens = <<>> THEN <<>>
    ELSE IF Head(itens) \in seen THEN dedup(Tail(itens), seen)
    ELSE <<Head(itens)>> \o dedup(Tail(itens), seen \cup {Head(itens)})

\* Seeded fault: code and description not trimmed.
item_da_linha_sem_strip(r) ==
    << IF r[1] = None THEN <<>> ELSE replace(replace(r[1][1], "."), ","),
       IF r[2] = None THEN <<>> ELSE r[2][1] >>

\* Lines 195-197: one row as (cod, desc).
item_da_linha(r) ==
    << IF r[1] = None THEN <<>> ELSE strip(replace(replace(r[1][1], "."), ",")),
       IF r[2] = None THEN <<>> ELSE strip(r[2][1]) >>

\* Seeded fault: the item lookup tried a second time after a lock conflict.
carregar_itens_retry(referencia, b) ==
    IF referencia = <<>> \/ strip(referencia) = <<>>
    THEN GwCall("itens", referencia, b, 0, <<>>, "ok", <<>>)
    ELSE LET n == IF Attempt(b, 0) = "lock" THEN 2 ELSE 1
             rows == QueryReferencia(strip(referencia))
         IN  IF Attempt(b, n - 1) # "ok"
             THEN GwCall("itens", referencia, b, n, <<>>, Attempt(b, n - 1), <<>>)
             ELSE GwCall("itens", referencia, b, n, <<>>, "ok",
                         dedup([k \in 1..Len(rows) |-> item_da_linha(rows[k])], {}))

carregar_itens_por_referencia(referencia, b) ==
    IF referencia = <<>> \/ strip(referencia) = <<>>
    THEN GwCall("itens", referencia, b, 0, <<>>, "ok", <<>>)
    ELSE IF Attempt(b, 0) # "ok"
         THEN GwCall("itens", referencia, b, 1, <<>>, Attempt(b, 0), <<>>)
    ELSE LET rows == QueryReferencia(strip(referencia))
         IN  GwCall("itens", referencia, b, 1, <<>>, "ok",
                    dedup([k \in 1..Len(rows) |-> item_da_linha(rows[k])], {}))

\* ------------------------------------------------------------ session state
\* init_state_defaults: the keys of st.session_state and their defaults.
Todos == <<"(", "T", "o", "d", "o", "s", ")">>

defaults ==
    [authenticated |-> FALSE, usuario |-> None,
     login_user |-> <<>>, login_pass |-> <<>>,
     referencia |-> <<>>, quantidade |-> None, marca |-> <<>>,
     tipo_sugestao |-> None, comentario |-> <<>>,
     itens_ref |-> <<>>, item_escolhido |-> None,
     codigo_item |-> None, descricao_item |-> None,
     _clear_after_save |-> FALSE, _clear_request |-> FALSE,
     f_ref |-> Todos, f_marca |-> Todos, f_tipo |-> Todos, f_vendedor |-> Todos,
     f_acao |-> Todos, f_coment_comp |-> Todos, f_oc |-> Todos, f_codigo |-> Todos,
     f_desc |-> Todos, f_data |-> Todos,
     _clear_filters_request |-> FALSE,
     _pending_success |-> FALSE]

init_state_defaults(s) ==
    [k \in DOMAIN defaults |-> IF k \in DOMAIN s THEN s[k] ELSE defaults[k]]

\* apply_pending_clear, "Limpeza do FORM".
clear_form(s) ==
    [s EXCEPT !.referencia = <<>>, !.quantidade = None, !.marca = <<>>,
              !.tipo_sugestao = None, !.comentario = <<>>,
              !.itens_ref = <<>>, !.item_escolhido = None,
              !.codigo_item = None, !.descricao_item = None,
              !._clear_after_save = FALSE, !._clear_request = FALSE]

\* Seeded fault: the filter of the date is left as it is.
clear_filters_sem_data(s) ==
    [s EXCEPT !.f_ref = Todos, !.f_marca = Todos, !.f_tipo = Todos,
              !.f_vendedor = Todos, !.f_acao = Todos, !.f_coment_comp = Todos,
              !.f_oc = Todos, !.f_codigo = Todos, !.f_desc = Todos,
              !._clear_filters_request = FALSE]

\* apply_pending_clear, "Limpeza dos FILTROS".
clear_filters(s) ==
    [s EXCEPT !.f_ref = Todos, !.f_marca = Todos, !.f_tipo = Todos,
              !.f_vendedor = Todos, !.f_acao = Todos, !.f_coment_comp = Todos,
              !.f_oc = Todos, !.f_codigo = Todos, !.f_desc = Todos, !.f_data = Todos,
              !._clear_filters_request = FALSE]

\* Seeded faults: the form is cleared on one of the two flags only.
apply_pending_clear_request_only(s) ==
    LET s1 == IF s._clear_request THEN clear_form(s) ELSE s
    IN  IF s1._clear_filters_request THEN clear_filters(s1) ELSE s1

apply_pending_clear_save_only(s) ==
    LET s1 == IF s._clear_after_save THEN clear_form(s) ELSE s
    IN  IF s1._clear_filters_request THEN clear_filters(s1) ELSE s1

apply_pending_clear(s) ==
    LET s1 == IF s._clear_after_save \/ s._clear_request THEN clear_form(s) ELSE s
    IN  IF s1._clear_filters_request THEN clear_filters(s1) ELSE s1

\* Lines 298-299, executed at the top of every run of the script.
script_top(s) == apply_pending_clear(init_state_defaults(s))

\* Seeded fault: the callback keeps the code and description bound before.
on_change_referencia_keep(s, b) ==
    LET ref == strip(s.referencia)
        s1 == [s EXCEPT !.itens_ref = <<>>, !.item_escolhido = None]
        call == carregar_itens_por_referencia(ref, b)
    IN  IF ref = <<>> THEN [ss |-> s1, gw |-> NoCall]
        ELSE IF call.result = "ok"
             THEN [ss |-> [s1 EXCEPT !.itens_ref = call.value], gw |-> call]
        ELSE [ss |-> [s1 EXCEPT !.itens_ref = <<>>], gw |-> call]

\* on_change_referencia: the session state after the callback and the
\* gateway call it made (NoCall for a blank reference).
on_change_referencia(s, b) ==
    LET ref == strip(s.referencia)
        s1 == [s EXCEPT !.itens_ref = <<>>, !.item_escolhido = None,
                        !.codigo_item = None, !.descricao_item = None]
        call == carregar_itens_por_referencia(ref, b)
    IN  IF ref = <<>> THEN [ss |-> s1, gw |-> NoCall]
        ELSE IF call.result = "ok"
             THEN [ss |-> [s1 EXCEPT !.itens_ref = call.value], gw |-> call]
        ELSE [ss |-> [s1 EXCEPT !.itens_ref = <<>>], gw |-> call]

\* The label of an item in the selectbox: "COD - DESC", or "COD".
label(item) ==
    IF item[2] # <<>> THEN item[1] \o <<" ", "-", " ">> \o item[2] ELSE item[1]

opcoes_itens(s) == [k \in 1..Len(s.itens_ref) |-> label(s.itens_ref[k])]

\* Seeded fault: an item is bound only while no code is bound yet.
bind_item_escolhido_once(s) ==
    LET hits == {k \in 1..Len(s.itens_ref) : Some(label(s.itens_ref[k])) = s.item_escolhido}
    IN  IF s.item_escolhido # None /\ hits # {} /\ s.codigo_item = None
        THEN LET k == CHOOSE m \in hits : \A n \in hits : m <= n
             IN  [s EXCEPT !.codigo_item = Some(s.itens_ref[k][1]),
                           !.descricao_item = Some(s.itens_ref[k][2])]
        ELSE s

\* Lines 401-408: the first item whose label is the chosen one is bound.
bind_item_escolhido(s) ==
    LET hits == {k \in 1..Len(s.itens_ref) : Some(label(s.itens_ref[k])) = s.item_escolhido}
    IN  IF s.item_escolhido # None /\ s.item_escolhido[1] # <<>> /\ hits # {}
        THEN LET k == CHOOSE m \in hits : \A n \in hits : m <= n
             IN  [s EXCEPT !.codigo_item = Some(s.itens_ref[k][1]),
                           !.descricao_item = Some(s.itens_ref[k][2])]
        ELSE s

Erro(cond, tag) == IF cond THEN <<tag>> ELSE <<>>

\* Seeded faults: only the first violation reported; the empty item list
\* not checked.
erros_first_only(s) ==
    IF strip(s.referencia) = <<>> THEN <<"referencia">>
    ELSE IF s.itens_ref = <<>> THEN <<"itens">>
    ELSE IF s.item_escolhido = None THEN <<"item">>
    ELSE IF s.quantidade = None THEN <<"quantidade">>
    ELSE IF strip(s.marca) = <<>> THEN <<"marca">>
    ELSE IF s.tipo_sugestao = None THEN <<"tipo">>
    ELSE <<>>

erros_sem_itens(s) ==
    Erro(strip(s.referencia) = <<>>, "referencia")
    \o Erro(s.itens_ref # <<>> /\ s.item_escolhido = None, "item")
    \o Erro(s.quantidade = None, "quantidade")
    \o Erro(strip(s.marca) = <<>>, "marca")
    \o Erro(s.tipo_sugestao = None, "tipo")

\* Lines 461-474: the list erros, in order.
erros(s) ==
    Erro(strip(s.referencia) = <<>>, "referencia")
    \o Erro(s.itens_ref = <<>>, "itens")
    \o Erro(s.itens_ref # <<>> /\ s.item_escolhido = None, "item")
    \o Erro(s.quantidade = None, "quantidade")
    \o Erro(strip(s.marca) = <<>>, "marca")
    \o Erro(s.tipo_sugestao = None, "tipo")

\* Seeded fault: the seller read from the text typed in the login field.
payload_vendedor_digitado(s) ==
    [referencia |-> strip(s.referencia), quantidade |-> s.quantidade[1],
     marca |-> strip(s.marca), tipo |-> s.tipo_sugestao[1],
     comentario |-> strip(s.comentario), codigo |-> s.codigo_item,
     descricao_codigo |-> s.descricao_item, vendedor |-> Some(s.login_user)]

\* Lines 459 and 481-490: the arguments of insert_sugestao.
payload(s) ==
    [referencia |-> strip(s.referencia), quantidade |-> s.quantidade[1],
     marca |-> strip(s.marca), tipo |-> s.tipo_sugestao[1],
     comentario |-> strip(s.comentario), codigo |-> s.codigo_item,
     descricao_codigo |-> s.descricao_item, vendedor |-> s.usuario]

\* ------------------------------------------------- report: options, filters
\* The characters of the texts, in the order of their code points.
Maiusculas ==
    <<"A", "B", "C", "D", "E", "F", "G", "H", "I", "J", "K", "L", "M",
      "N", "O", "P", "Q", "R", "S", "T", "U", "V", "W", "X", "Y", "Z">>

Minusculas ==
    <<"a", "b", "c", "d", "e", "f", "g", "h", "i", "j", "k", "l", "m",
      "n", "o", "p", "q", "r", "s", "t", "u", "v", "w", "x", "y", "z">>

Alfabeto ==
    <<" ", "(", ")", ",", "-", ".", "/">> \o Digitos \o Maiusculas \o <<"_">> \o Minusculas

ord(ch) == CHOOSE i \in 1..Len(Alfabeto) : Alfabeto[i] = ch

\* str.lower()
lower(s) ==
    [k \in 1..Len(s) |->
       IF s[k] \in Range(Maiusculas)
       THEN Minusculas[CHOOSE i \in 1..26 : Maiusculas[i] = s[k]]
       ELSE s[k]]

\* a < b for two str.
RECURSIVE menor(_, _)
menor(a, b) ==
    IF b = <<>> THEN FALSE
    ELSE IF a = <<>> THEN TRUE
    ELSE IF Head(a) = Head(b) THEN menor(Tail(a), Tail(b))
    ELSE ord(Head(a)) < ord(Head(b))

\* sorted(vals, key=lambda s: s.lower()): a stable sort.
RECURSIVE inserir(_, _)
inserir(vals, x) ==
    IF vals = <<>> THEN <<x>>
    ELSE IF menor(lower(x), lower(Head(vals))) THEN <<x>> \o vals
    ELSE <<Head(vals)>> \o inserir(Tail(vals), x)

RECURSIVE sorted_lower(_)
sorted_lower(vals) ==
    IF vals = <<>> THEN <<>>
    ELSE inserir(sorted_lower(SubSeq(vals, 1, Len(vals) - 1)), vals[Len(vals)])

\* df[dfcol]
coluna(df, dfcol) == [k \in 1..Len(df.rows) |-> df.rows[k][dfcol]]

\* Seeded fault: the values are not sorted.
_uniq_sem_ordem(df, dfcol) ==
    IF dfcol \notin Range(df.columns) THEN <<>>
    ELSE LET notna(x) == ~isna(x)
             unique == dedup(SelectSeq(coluna(df, dfcol), notna), {})
             vals == [k \in 1..Len(unique) |-> strip(str(unique[k]))]
             naoVazio(v) == v # <<>>
         IN  SelectSeq(vals, naoVazio)

\* _uniq, lines 509-514: the values of the column without NULL, each once
\* (unique() comes first), then as trimmed texts without the empty ones,
\* sorted without regard to case.
_uniq(df, dfcol) ==
    IF dfcol \notin Range(df.columns) THEN <<>>
    ELSE LET notna(x) == ~isna(x)
             unique == dedup(SelectSeq(coluna(df, dfcol), notna), {})
             vals == [k \in 1..Len(unique) |-> strip(str(unique[k]))]
             naoVazio(v) == v # <<>>
         IN  sorted_lower(SelectSeq(vals, naoVazio))

\* Lines 516-525.
opcoes(df, dfcol) == <<Todos>> \o _uniq(df, dfcol)

\* Lines 532-542: the nine selectboxes, in the order their filters are
\* applied, and the column each one filters.
Filtros ==
    <<"f_ref", "f_marca", "f_tipo", "f_vendedor", "f_acao", "f_coment_comp",
      "f_oc", "f_codigo", "f_data">>

FiltroColuna ==
    [f_ref |-> "Referencia", f_marca |-> "Marca", f_tipo |-> "Tipo Sugestao",
     f_vendedor |-> "Vendedor", f_acao |-> "Acao Comprador",
     f_coment_comp |-> "Comentario Comprador", f_oc |-> "Ordem Compra",
     f_codigo |-> "Codigo", f_data |-> "Data Lancamento"]

\* Lines 516-525: the columns an option list is made of.
ColunasOpcoes == {FiltroColuna[f] : f \in Range(Filtros)} \cup {"Descricao Codigo"}

\* df[col] == filtro, for one cell: a str equal to the text chosen.
igual(x, filtro) == x.t = "str" /\ x.v = filtro

\* Seeded fault: the first selection that is not "(Todos)" decides alone.
RECURSIVE aplicar_filtros_primeiro(_, _, _)
aplicar_filtros_primeiro(rows, s, i) ==
    IF i > Len(Filtros) THEN rows
    ELSE LET f == Filtros[i]
             fica(r) == igual(r[FiltroColuna[f]], s[f])
         IN  IF s[f] # Todos THEN SelectSeq(rows, fica)
             ELSE aplicar_filtros_primeiro(rows, s, i + 1)

\* Lines 545-563: the filters from the i-th on, one after the other.
RECURSIVE aplicar_filtros(_, _, _)
aplicar_filtros(rows, s, i) ==
    IF i > Len(Filtros) THEN rows
    ELSE LET f == Filtros[i]
             fica(r) == igual(r[FiltroColuna[f]], s[f])
         IN  aplicar_filtros(IF s[f] # Todos THEN SelectSeq(rows, fica) ELSE rows,
                             s, i + 1)

df_filtrado(df, s) == DataFrame(df.columns, aplicar_filtros(df.rows, s, 1))

\* --------------------------------------------------------------- user input
\* What the user types or picks; the selectboxes offer None (index=None)
\* and their options.
UserInputs == {<<>>, <<" ">>, <<" ", "a", "n", "a">>, <<"b", "o", "b">>}
PassInputs == {<<>>, <<"p", "w">>}
RefInputs == {<<>>, <<" ">>, <<" ", "A">>, <<"B">>, <<"Z">>}
QuantidadeInputs == {None, Some(1), Some(1000)}
MarcaInputs == {<<>>, <<" ">>, <<" ", "M">>}
TipoInputs == {None, Some("VENDA_CASADA"), Some("VENDA_PERDIDA")}
ComentarioInputs == {<<>>, <<"c", " ">>}
ItemInputs(s) == {None} \cup {Some(opcoes_itens(s)[k]) : k \in 1..Len(s.itens_ref)}

FormInputs(s) ==
    [item_escolhido : ItemInputs(s), quantidade : QuantidadeInputs,
     marca : MarcaInputs, tipo_sugestao : TipoInputs, comentario : ComentarioInputs]

\* The widgets of form_sugestao write their values when the form is submitted.
submit_form(s, w) ==
    [s EXCEPT !.item_escolhido = w.item_escolhido, !.quantidade = w.quantidade,
              !.marca = w.marca, !.tipo_sugestao = w.tipo_sugestao,
              !.comentario = w.comentario]

Paginas == {"SUGESTAO", "CONSULTA"}

\* run = "event": the state was left by the execution that served the event;
\* run = "rerun": by the execution its st.rerun() asked for.
Tela(ev, run, pg, msgs) == [ev |-> ev, run |-> run, pagina |-> pg, msgs |-> msgs]

\* ------------------------------------------------------------------- pages
\* Lines 372-408 and 502-506: drawing the current page.  The form page binds
\* the chosen item; the report page loads the suggestions, from the cache
\* when it holds them.
DrawPage(s, ev, run, b) ==
    IF pagina' = "SUGESTAO"
    THEN /\ ss' = bind_item_escolhido(s)
         /\ gw' = NoCall
         /\ cache' = cache
         /\ tela' = Tela(ev, run, "SUGESTAO", <<>>)
    ELSE LET call == IF cache # None THEN NoCall ELSE carregar_sugestoes(SugestaoVendedor, b)
         IN  /\ ss' = s
             /\ gw' = call
             /\ cache' = IF cache = None /\ call.result = "ok" THEN Some(call.value) ELSE cache
             /\ tela' = Tela(ev, run, "CONSULTA",
                             IF call.result = "ok" THEN <<>> ELSE <<"erro_consulta">>)

NeedsBackend == pagina' = "CONSULTA" /\ cache = None

Draw(s, ev, run) ==
    /\ pc' = "interactive"
    /\ IF NeedsBackend THEN \E b \in PageBackend : DrawPage(s, ev, run, b)
       ELSE DrawPage(s, ev, run, Healthy)

Init ==
    /\ ss = init_state_defaults(<<>>)
    /\ pagina = "SUGESTAO"
    /\ cache = None
    /\ pc = "interactive"
    /\ tela = Tela("start", "event", "LOGIN", <<>>)
    /\ gw = NoCall

\* ------------------------------------------------------------------- login
\* Seeded fault: only the user name is required.
campos_vazios_so_usuario(user, pwd) == user = <<>>

\* Line 313: "if not user or not pwd".
campos_vazios(user, pwd) == user = <<>> \/ pwd = <<>>

\* Lines 304-329: "Entrar" on the login page, the user typing a name of U
\* and a password of P.
EntrarCom(U, P) ==
    /\ pc = "interactive" /\ ~ss.authenticated
    /\ \E u \in U, p \in P :
         LET s == script_top([ss EXCEPT !.login_user = u, !.login_pass = p])
             user == strip(s.login_user)
             pwd == s.login_pass
         IN  IF campos_vazios(user, pwd)
             THEN /\ ss' = s /\ gw' = NoCall /\ pc' = "interactive"
                  /\ tela' = Tela("entrar", "event", "LOGIN", <<"informe_usuario_senha">>)
             ELSE \E b \in PageBackend :
                    LET call == authenticate_user(user, pwd, b)
                    IN  /\ gw' = call
                        /\ IF call.result # "ok"
                           THEN /\ ss' = s /\ pc' = "interactive"
                                /\ tela' = Tela("entrar", "event", "LOGIN", <<"erro_autenticar">>)
                           ELSE IF call.value.ok
                           THEN /\ ss' = [s EXCEPT !.authenticated = TRUE,
                                                   !.usuario = PyOr(call.value.nome, Some(user))]
                                /\ pc' = "rerun"
                                /\ tela' = Tela("entrar", "event", "LOGIN", <<"bem_vindo">>)
                           ELSE /\ ss' = s /\ pc' = "interactive"
                                /\ tela' = Tela("entrar", "event", "LOGIN", <<"invalidos">>)
    /\ UNCHANGED <<pagina, cache>>

Entrar == EntrarCom(UserInputs, PassInputs)

\* Seeded fault: the logout forgets the flag and clears the name only.
Sair_so_usuario ==
    /\ pc = "interactive" /\ ss.authenticated
    /\ ss' = [script_top(ss) EXCEPT !.usuario = None]
    /\ pc' = "rerun"
    /\ tela' = Tela("sair", "event", tela.pagina, <<>>)
    /\ gw' = NoCall
    /\ UNCHANGED <<pagina, cache>>

\* do_logout, from the sidebar button "Sair".
Sair ==
    /\ pc = "interactive" /\ ss.authenticated
    /\ ss' = [script_top(ss) EXCEPT !.authenticated = FALSE, !.usuario = None]
    /\ pc' = "rerun"
    /\ tela' = Tela("sair", "event", tela.pagina, <<>>)
    /\ gw' = NoCall
    /\ UNCHANGED <<pagina, cache>>

\* The sidebar radio.
Navegar ==
    /\ pc = "interactive" /\ ss.authenticated
    /\ \E p \in Paginas \ {pagina} :
         /\ pagina' = p
         /\ Draw(script_top(ss), "navegar", "event")

\* ------------------------------------------------------------------- form
\* The text input "Referência" changed: on_change_referencia, then the script.
MudarReferencia ==
    /\ pc = "interactive" /\ ss.authenticated /\ pagina = "SUGESTAO"
    /\ \E r \in RefInputs \ {ss.referencia} :
         \E b \in IF strip(r) = <<>> THEN {Healthy} ELSE PageBackend :
           LET cb == on_change_referencia([ss EXCEPT !.referencia = r], b)
           IN  /\ ss' = bind_item_escolhido(script_top(cb.ss))
               /\ gw' = cb.gw
               /\ tela' = Tela("referencia", "event", "SUGESTAO", <<>>)
    /\ pc' = "interactive"
    /\ UNCHANGED <<pagina, cache>>

\* Lines 446-448: the form submitted with "Limpar".
Limpar ==
    /\ pc = "interactive" /\ ss.authenticated /\ pagina = "SUGESTAO"
    /\ \E w \in FormInputs(ss) :
         ss' = [bind_item_escolhido(script_top(submit_form(ss, w)))
                  EXCEPT !._clear_request = TRUE]
    /\ pc' = "rerun"
    /\ tela' = Tela("limpar", "event", "SUGESTAO", <<>>)
    /\ gw' = NoCall
    /\ UNCHANGED <<pagina, cache>>

\* Seeded fault: the flags set before insert_sugestao is called.
salvar_flags_first(s, b) ==
    IF erros(s) # <<>>
    THEN [ss |-> s, gw |-> NoCall, pc |-> "interactive", msgs |-> erros(s)]
    ELSE LET call == insert_sugestao(payload(s), b)
             s1 == [s EXCEPT !._pending_success = TRUE, !._clear_after_save = TRUE]
         IN  IF call.result = "ok"
             THEN [ss |-> s1, gw |-> call, pc |-> "rerun", msgs |-> <<>>]
             ELSE [ss |-> s1, gw |-> call, pc |-> "interactive", msgs |-> <<"erro_salvar">>]

\* Lines 450-497: the form submitted with "Salvar".
salvar(s, b) ==
    IF erros(s) # <<>>
    THEN [ss |-> s, gw |-> NoCall, pc |-> "interactive", msgs |-> erros(s)]
    ELSE LET call == insert_sugestao(payload(s), b)
         IN  IF call.result = "ok"
             THEN [ss |-> [s EXCEPT !._pending_success = TRUE, !._clear_after_save = TRUE],
                   gw |-> call, pc |-> "rerun", msgs |-> <<>>]
             ELSE [ss |-> s, gw |-> call, pc |-> "interactive", msgs |-> <<"erro_salvar">>]

SalvarCom(W) ==
    /\ pc = "interactive" /\ ss.authenticated /\ pagina = "SUGESTAO"
    /\ \E w \in W :
         LET s == bind_item_escolhido(script_top(submit_form(ss, w)))
         IN  \E b \in IF erros(s) # <<>> THEN {Healthy} ELSE PageBackend :
               LET r == salvar(s, b)
               IN  /\ ss' = r.ss /\ gw' = r.gw /\ pc' = r.pc
                   /\ tela' = Tela("salvar", "event", "SUGESTAO", r.msgs)
    /\ UNCHANGED <<pagina, cache>>

Salvar == SalvarCom(FormInputs(ss))

\* ------------------------------------------------------------------ report
\* Lines 579-581: "Recarregar" is drawn once the suggestions were loaded.
Recarregar ==
    /\ pc = "interactive" /\ ss.authenticated /\ pagina = "CONSULTA"
    /\ tela.pagina = "CONSULTA" /\ tela.msgs = <<>>
    /\ \E b \in IF cache # None THEN {Healthy} ELSE PageBackend :
         LET call == IF cache # None THEN NoCall ELSE carregar_sugestoes(SugestaoVendedor, b)
         IN  /\ gw' = call
             /\ ss' = script_top(ss)
             /\ IF call.result = "ok"
                THEN /\ cache' = None /\ pc' = "rerun"
                     /\ tela' = Tela("recarregar", "event", "CONSULTA", <<>>)
                ELSE /\ cache' = cache /\ pc' = "interactive"
                     /\ tela' = Tela("recarregar", "event", "CONSULTA", <<"erro_consulta">>)
    /\ UNCHANGED pagina

\* The suggestions the report page shows: those of the table of the pages.
df_pagina == normalizar(DataFrame(Colunas, SugestaoVendedor))

\* Lines 532-542: another option picked in one of the nine selectboxes; the
\* script runs and draws the page.  At most MaxFiltros selections are set.
SelecionarFiltro ==
    /\ pc = "interactive" /\ ss.authenticated /\ pagina = "CONSULTA"
    /\ tela.pagina = "CONSULTA" /\ tela.msgs = <<>>
    /\ \E f \in Range(Filtros) :
         \E v \in Range(opcoes(df_pagina, FiltroColuna[f])) \ {ss[f]} :
           LET s == [ss EXCEPT ![f] = v]
           IN  /\ Cardinality({g \in Range(Filtros) : s[g] # Todos}) <= MaxFiltros
               /\ pagina' = pagina
               /\ Draw(script_top(s), "filtro", "event")

\* Lines 582-584: "Limpar filtros" is drawn once the suggestions were loaded.
LimparFiltros ==
    /\ pc = "interactive" /\ ss.authenticated /\ pagina = "CONSULTA"
    /\ tela.pagina = "CONSULTA" /\ tela.msgs = <<>>
    /\ \E b \in IF cache # None THEN {Healthy} ELSE PageBackend :
         LET call == IF cache # None THEN NoCall
                     ELSE carregar_sugestoes(SugestaoVendedor, b)
         IN  /\ gw' = call
             /\ IF call.result = "ok"
                THEN /\ ss' = [script_top(ss) EXCEPT !._clear_filters_request = TRUE]
                     /\ cache' = IF cache = None THEN Some(call.value) ELSE cache
                     /\ pc' = "rerun"
                     /\ tela' = Tela("limpar_filtros", "event", "CONSULTA", <<>>)
                ELSE /\ ss' = script_top(ss)
                     /\ cache' = cache /\ pc' = "interactive"
                     /\ tela' = Tela("limpar_filtros", "event", "CONSULTA",
                                     <<"erro_consulta">>)
    /\ UNCHANGED pagina

\* ttl=30: the cached suggestions expire.
Expirar ==
    /\ cache # None
    /\ cache' = None
    /\ UNCHANGED <<ss, pagina, pc, tela, gw>>

\* ------------------------------------------------------------------ script
\* The execution st.rerun() asked for, up to the success message.
Rerun ==
    /\ pc = "rerun"
    /\ LET s == script_top(ss)
       IN  IF ~s.authenticated
           THEN /\ ss' = s /\ pc' = "interactive" /\ pagina' = "SUGESTAO"
                /\ tela' = Tela(tela.ev, "rerun", "LOGIN", <<>>)
                /\ gw' = NoCall /\ cache' = cache
           ELSE IF s._pending_success
           THEN /\ ss' = s /\ pc' = "success_msg"
                /\ tela' = Tela(tela.ev, "rerun", tela.pagina, <<"sucesso">>)
                /\ gw' = NoCall
                /\ UNCHANGED <<pagina, cache>>
           ELSE /\ pagina' = pagina
                /\ Draw(s, tela.ev, "rerun")

\* Lines 335-337: the 5 seconds are over; the rest of the script runs.
FimMensagem ==
    /\ pc = "success_msg"
    /\ pagina' = pagina
    /\ Draw([ss EXCEPT !._pending_success = FALSE], tela.ev, "rerun")

Next ==
    \/ Entrar
    \/ Sair
    \/ Navegar
    \/ MudarReferencia
    \/ Limpar
    \/ Salvar
    \/ Recarregar
    \/ Expirar
    \/ Rerun
    \/ FimMensagem

Spec == Init /\ [][Next]_vars

\* ----------------------------------------------------- the gateway alone
\* The four gateway functions called directly, on every backend behaviour.
LoginArgs ==
    {<<>>, <<"a", "n", "a">>, <<"b", "o", "b">>, <<"e", "v", "e">>,
     <<"n", "i", "l">>, <<"z">>}
SenhaArgs == {<<>>, <<"p", "w">>, <<"1", "2">>}
RowArgs ==
    {[referencia |-> <<"A">>, quantidade |-> q, marca |-> <<"M">>,
      tipo |-> "VENDA_CASADA", comentario |-> <<>>, codigo |-> Some(<<"0", "1">>),
      descricao_codigo |-> Some(<<"P">>), vendedor |-> Some(<<"A", "n", "a">>)]
       : q \in {1, 1000}}

CallInsert ==
    /\ \E row \in RowArgs, b \in Backend : gw' = insert_sugestao(row, b)
    /\ UNCHANGED <<ss, pagina, cache, pc, tela>>

CallAuthenticate ==
    /\ \E login \in LoginArgs, senha \in SenhaArgs, b \in Backend :
         gw' = authenticate_user(login, senha, b)
    /\ UNCHANGED <<ss, pagina, cache, pc, tela>>

CallItens ==
    /\ \E ref \in RefInputs, b \in Backend : gw' = carregar_itens_por_referencia(ref, b)
    /\ UNCHANGED <<ss, pagina, cache, pc, tela>>

CallSugestoes ==
    /\ \E tabela \in Tabelas, b \in Backend : gw' = carregar_sugestoes(tabela, b)
    /\ UNCHANGED <<ss, pagina, cache, pc, tela>>

GatewayNext ==
    \/ CallInsert
    \/ CallAuthenticate
    \/ CallItens
    \/ CallSugestoes

GatewaySpec == Init /\ [][GatewayNext]_vars

\* ------------------------------------------------ the report functions alone
\* _uniq and the filters applied to what carregar_sugestoes returns for every
\* table of Tabelas, for every combination of at most MaxFiltros selections
\* that the selectboxes offer.
DataFrames == {normalizar(DataFrame(Colunas, tabela)) : tabela \in Tabelas}

RECURSIVE SelecoesAte(_, _)
SelecoesAte(df, n) ==
    IF n = 0 THEN {[f \in Range(Filtros) |-> Todos]}
    ELSE LET menos == SelecoesAte(df, n - 1)
         IN  menos \cup
             UNION {{[s EXCEPT ![f] = v] : v \in Range(opcoes(df, FiltroColuna[f]))}
                      : s \in menos, f \in Range(Filtros)}

Selecoes(df) == SelecoesAte(df, MaxFiltros)

CallUniq ==
    /\ \E df \in DataFrames :
         \E dfcol \in ColunasOpcoes :
           gw' = [NoCall EXCEPT !.op = "_uniq", !.args = <<df, dfcol>>,
                                !.value = opcoes(df, dfcol)]
    /\ UNCHANGED <<ss, pagina, cache, pc, tela>>

CallFiltrar ==
    /\ \E df \in DataFrames :
         \E s \in Selecoes(df) :
           gw' = [NoCall EXCEPT !.op = "df_filtrado", !.args = <<df, s>>,
                                !.value = df_filtrado(df, s)]
    /\ UNCHANGED <<ss, pagina, cache, pc, tela>>

ConsultaNext ==
    \/ CallUniq
    \/ CallFiltrar

ConsultaSpec == Init /\ [][ConsultaNext]_vars

\* ------------------------------------------------------------ the session
\* The script used by every user CADASTRO_USUARIO knows, who saves a form
\* that is filled in: any password of SenhaArgs is typed at the login, and
\* the form is submitted with a quantity, a brand and a type.
FormPreenchido(s) ==
    {w \in FormInputs(s) : /\ w.quantidade = Some(1) /\ w.marca = <<" ", "M">>
                           /\ w.tipo_sugestao = Some("VENDA_CASADA")
                           /\ w.comentario = <<>>}

EntrarSessao == EntrarCom(UserInputs, SenhaArgs)

SalvarSessao == SalvarCom(FormPreenchido(ss))

SessaoNext ==
    \/ EntrarSessao
    \/ Sair
    \/ Navegar
    \/ MudarReferencia
    \/ SalvarSessao
    \/ Recarregar
    \/ Expirar
    \/ Rerun
    \/ FimMensagem

SessaoSpec == Init /\ [][SessaoNext]_vars

\* ------------------------------------------------------------ the filters
\* The script used by someone who looks references up and filters the
\* report, without submitting the form.
FiltrosNext ==
    \/ Entrar
    \/ Sair
    \/ Navegar
    \/ MudarReferencia
    \/ SelecionarFiltro
    \/ LimparFiltros
    \/ Recarregar
    \/ Expirar
    \/ Rerun

FiltrosSpec == Init /\ [][FiltrosNext]_vars

\* ================================================================== claims
FormFields ==
    {"referencia", "quantidade", "marca", "tipo_sugestao", "comentario",
     "itens_ref", "item_escolhido", "codigo_item", "descricao_item"}

FormIsDefault(s) == \A k \in FormFields : s[k] = defaults[k]

\* C1: a submit that passes validation and whose insert succeeds asks for a
\* rerun with the clear and success flags set; the rerun resets the nine form
\* fields to their defaults and clears both clear flags before the 5-second
\* success message is shown, and they stay so when the message ends (the
\* steps meant are the script's: the cache may expire at any time).
C1_ResetAfterSave ==
    /\ [](gw.op = "insert" /\ gw.result = "ok" /\ tela.ev = "salvar"
            => pc = "rerun" /\ ss._clear_after_save /\ ss._pending_success)
    /\ [][pc = "rerun" /\ ss._clear_after_save /\ pc' # pc
            => /\ pc' = "success_msg" /\ tela'.msgs = <<"sucesso">>
               /\ ss'._pending_success
               /\ FormIsDefault(ss')
               /\ ~ss'._clear_after_save /\ ~ss'._clear_request]_vars
    /\ [][pc = "success_msg" /\ pc' # pc
            => /\ pc' = "interactive" /\ ~ss'._pending_success
               /\ FormIsDefault(ss')
               /\ ~ss'._clear_after_save /\ ~ss'._clear_request]_vars

C1_Witness ==
    /\ pc = "success_msg" /\ tela.ev = "salvar"
    /\ FormIsDefault(ss) /\ ss._pending_success

SalvarDone == tela.ev = "salvar" /\ tela.run = "event"

\* The six constraints of the form, by the tag of their message.
Constraints(s) ==
    [referencia |-> strip(s.referencia) # <<>>,
     itens      |-> s.itens_ref # <<>>,
     item       |-> s.item_escolhido # None,
     quantidade |-> s.quantidade # None /\ s.quantidade[1] \in 1..1000,
     marca      |-> strip(s.marca) # <<>>,
     tipo       |-> s.tipo_sugestao \in {Some("VENDA_CASADA"), Some("VENDA_PERDIDA")}]

Violated(s) == {c \in DOMAIN Constraints(s) : ~Constraints(s)[c]}

NoFlags(s) == ~s._clear_after_save /\ ~s._clear_request /\ ~s._pending_success

Rejected == gw = NoCall /\ pc = "interactive" /\ NoFlags(ss)

\* C3 (as claimed): on submit the error list holds one entry for every
\* violated constraint, and any violation keeps insert from being called and
\* the flags from being set.
C3_OneEntryPerViolation ==
    SalvarDone /\ Violated(ss) # {} =>
        /\ Range(tela.msgs) = Violated(ss)
        /\ Len(tela.msgs) = Cardinality(Violated(ss))
        /\ Rejected

\* C3 (amended): the same, except that "select an item" is reported only when
\* the item list is not empty: with an empty list the one entry "no items
\* found" stands for both violations.
C3_EntriesPerViolation ==
    SalvarDone /\ Violated(ss) # {} =>
        /\ Range(tela.msgs) =
              Violated(ss) \ (IF "itens" \in Violated(ss) THEN {"item"} ELSE {})
        /\ Len(tela.msgs) = Cardinality(Range(tela.msgs))
        /\ Rejected

C3_Witness ==
    /\ SalvarDone /\ Len(tela.msgs) >= 3
    /\ "item" \in Range(tela.msgs) /\ "marca" \in Range(tela.msgs)

\* The items the catalogue holds for a trimmed reference, codes without
\* separators, each pair once.
ExpectedItens(ref) ==
    CASE ref = <<"A">> -> << <<<<"0", "1">>, <<"P">>>>, <<<<"0", "2">>, <<>>>> >>
      [] ref = <<"B">> -> << <<<<"0", "2">>, <<>>>>, <<<<>>, <<>>>> >>
      [] OTHER -> <<>>

\* C4: after the reference-change callback no selection, code or description
\* is left, and the item list is that of the new trimmed reference: empty
\* when it is blank (no lookup), has no items or the lookup fails.
C4_ReferenceChangeResets ==
    tela.ev = "referencia" =>
        /\ ss.item_escolhido = None /\ ss.codigo_item = None /\ ss.descricao_item = None
        /\ strip(ss.referencia) = <<>> => gw = NoCall /\ ss.itens_ref = <<>>
        /\ strip(ss.referencia) # <<>> =>
              /\ gw.op = "itens" /\ gw.args = strip(ss.referencia) /\ gw.attempts = 1
              /\ gw.result = "ok" => ss.itens_ref = ExpectedItens(strip(ss.referencia))
              /\ gw.result # "ok" => ss.itens_ref = <<>>

C4_Witness ==
    /\ tela.ev = "referencia" /\ gw.op = "itens" /\ gw.result # "ok"
    /\ ss.marca # <<>> /\ ss.quantidade # None /\ ss.itens_ref = <<>>

HasLabel(s, k) == Some(label(s.itens_ref[k])) = s.item_escolhido

\* C5 (as claimed): the selection is always None or the label of an item of the loaded
\* list (every change of the list clears it, so no stale selection reaches a
\* submit); when submit calls insert, the code and description sent are those
\* of an item of the loaded list whose label is the selected one; with no
\* selection submit fails validation and sends nothing.
C5_PayloadBoundToSelection ==
    /\ ss.item_escolhido # None => \E k \in 1..Len(ss.itens_ref) : HasLabel(ss, k)
    /\ SalvarDone /\ gw.op = "insert" =>
          \E k \in 1..Len(ss.itens_ref) :
             /\ HasLabel(ss, k)
             /\ gw.args.codigo = Some(ss.itens_ref[k][1])
             /\ gw.args.descricao_codigo = Some(ss.itens_ref[k][2])
    /\ SalvarDone /\ ss.item_escolhido = None =>
          /\ Rejected
          /\ {"item", "itens"} \cap Range(tela.msgs) # {}

C5_Witness ==
    /\ SalvarDone /\ gw.op = "insert" /\ gw.result = "ok"
    /\ ss.item_escolhido = Some(<<"0", "2">>)
    /\ gw.args.codigo = Some(<<"0", "2">>) /\ gw.args.descricao_codigo = Some(<<>>)

\* C6: while the loaded item list is empty the selectbox offers nothing and
\* selection, code and description are unset; a submit in such a state is
\* rejected with the "no items found" entry and calls no insert.
C6_EmptyListNothingSelected ==
    /\ ss.itens_ref = <<>> =>
          /\ ss.item_escolhido = None /\ ss.codigo_item = None /\ ss.descricao_item = None
          /\ opcoes_itens(ss) = <<>> /\ ItemInputs(ss) = {None}
    /\ SalvarDone /\ ss.itens_ref = <<>> =>
          /\ "itens" \in Range(tela.msgs)
          /\ Rejected

C6_Witness ==
    /\ SalvarDone /\ ss.itens_ref = <<>> /\ strip(ss.referencia) = <<"Z">>
    /\ tela.msgs = <<"itens">>

SaveFailed == SalvarDone /\ gw.op = "insert" /\ gw.result # "ok"

SubmitKeys ==
    {"item_escolhido", "quantidade", "marca", "tipo_sugestao", "comentario",
     "codigo_item", "descricao_item"}

\* C7: when the insert of a validated submit fails, the error is shown and
\* the form is kept: no flag is set, every key but those the form submits
\* keeps its value, the submitted values stay in the session (they still pass
\* validation and give the payload that was sent), and submitting them again
\* calls insert with the same payload.
C7_FailedInsertKeepsForm ==
    /\ [](SaveFailed =>
            /\ pc = "interactive" /\ tela.msgs = <<"erro_salvar">>
            /\ NoFlags(ss)
            /\ Violated(ss) = {}
            /\ payload(ss) = gw.args)
    /\ [][SaveFailed' => \A k \in DOMAIN ss \ SubmitKeys : ss'[k] = ss[k]]_vars
    /\ [][SaveFailed /\ SalvarDone' /\ (\A k \in FormFields : ss'[k] = ss[k])
            => gw'.op = "insert" /\ gw'.args = gw.args]_vars

C7_Witness ==
    /\ SaveFailed /\ gw.result = "lock"
    /\ ss.marca = <<" ", "M">> /\ ss.comentario # <<>> /\ ss.codigo_item # None

\* C8: "Limpar" only asks for the clear; the rerun it asks for leaves the
\* nine form fields at their defaults, as the reset after a save does,
\* without a call to insert and without the success message.
C8_ClearIsFullReset ==
    /\ [](tela.ev = "limpar" /\ tela.run = "event" =>
            /\ pc = "rerun" /\ ss._clear_request
            /\ ~ss._clear_after_save /\ ~ss._pending_success
            /\ gw = NoCall)
    /\ [][pc = "rerun" /\ ss._clear_request /\ pc' # pc =>
            /\ pc' = "interactive" /\ tela'.msgs = <<>>
            /\ FormIsDefault(ss')
            /\ \A k \in FormFields : ss'[k] = clear_form(ss)[k]
            /\ NoFlags(ss')
            /\ gw' = NoCall]_vars

C8_Witness ==
    /\ tela.ev = "limpar" /\ tela.run = "rerun" /\ pc = "interactive"
    /\ FormIsDefault(ss) /\ NoFlags(ss)

Min(a, b) == IF a < b THEN a ELSE b

FirstError(call) ==
    LET b == call.backend[1]
    IN  IF b.locks > 0 THEN "lock" ELSE IF b.down THEN "error" ELSE "ok"

\* At most one backend attempt, no wait, and the first error raised.
FailsFast(call) ==
    /\ call.attempts <= 1 /\ call.waits = <<>>
    /\ call.attempts = 1 => call.result = FirstError(call)

\* C9 (as claimed): fetching the suggestions, fetching the items of a
\* reference and authenticating make a single backend attempt and raise the
\* first error.
C9_OnlyInsertRetries ==
    gw.op \in {"sugestoes", "itens", "authenticate"} => FailsFast(gw)

\* C9 (amended): inserting, fetching the items of a reference and
\* authenticating make a single backend attempt and raise the first error;
\* fetching the suggestions is the one operation that retries: after a lock
\* conflict it waits and tries again, up to 5 attempts, and raises any other
\* error at once.
C9_OnlySugestoesRetries ==
    /\ gw.op \in {"insert", "itens", "authenticate"} => FailsFast(gw)
    /\ gw.op = "sugestoes" =>
          LET b == gw.backend[1]
          IN  /\ gw.attempts = Min(b.locks + 1, tentativas)
              /\ Len(gw.waits) = gw.attempts - 1
              /\ b.locks = 0 => gw.result = FirstError(gw)
              /\ b.locks \in 1..(tentativas - 1) =>
                    gw.result = IF b.down THEN "error" ELSE "ok"
              /\ b.locks >= tentativas => gw.result = "lock"

C9_Witness ==
    /\ gw.op = "sugestoes" /\ gw.attempts = tentativas /\ gw.result = "ok"
    /\ Len(gw.waits) = tentativas - 1

\* The (login, password) pairs CADASTRO_USUARIO accepts: the first password
\* column the row has holds that text.
Credenciais ==
    {<< <<"a", "n", "a">>, <<"p", "w">> >>, << <<"b", "o", "b">>, <<"1", "2">> >>}

\* C10 (as claimed): authenticate_user always returns, never raises: not-ok
\* for an empty login, an unknown user, a row without password and a failing
\* backend; ok only for a stored password equal to the one supplied.
C10_NeverRaises ==
    gw.op = "authenticate" =>
        /\ gw.result = "ok"
        /\ gw.value.ok <=> (gw.args \in Credenciais /\ FirstError(gw) = "ok")

\* C10 (amended): authenticate_user returns not-ok, without a backend call,
\* for an empty login, and not-ok with no name for an unknown user and for a
\* row whose password is missing or NULL; it returns ok exactly when the
\* stored password is the one supplied; when the backend call fails it does
\* not return: the pyodbc.Error is raised to the caller.
C10_FailsClosedOrRaises ==
    gw.op = "authenticate" =>
        LET login == gw.args[1]
        IN  /\ login = <<>> => gw.attempts = 0 /\ gw.result = "ok" /\ ~gw.value.ok
            /\ login # <<>> => gw.attempts = 1 /\ gw.result = FirstError(gw)
            /\ gw.result = "ok" =>
                  /\ gw.value.ok <=> gw.args \in Credenciais
                  /\ login \notin {<<"a", "n", "a">>, <<"b", "o", "b">>}
                        => gw.value.nome = None

C10_Witness ==
    /\ gw.op = "authenticate" /\ gw.args \in Credenciais
    /\ gw.result = "error" /\ gw.value = <<>>

\* The name CADASTRO_USUARIO gives for a login: the NOME of its row, and the
\* login itself when the row has no name.
NomeExibicao(login) ==
    CASE login = <<"a", "n", "a">> -> Some(<<"A", "n", "a">>)
      [] login = <<"b", "o", "b">> -> Some(<<"b", "o", "b">>)
      [] OTHER -> None

\* C11: the seller of every insert payload is the user name of the session,
\* which is the display name of the login that opened it (the name of the
\* user's row, the login when the row has no name); no step taken while the
\* session is authenticated, a form action included, changes that name.
C11_VendedorIsSessionUser ==
    /\ [](SalvarDone /\ gw.op = "insert" =>
            /\ gw.args.vendedor = ss.usuario
            /\ ss.usuario # None
            /\ ss.usuario = NomeExibicao(strip(ss.login_user)))
    /\ [][ss.authenticated /\ ss'.authenticated => ss'.usuario = ss.usuario]_vars

C11_Witness ==
    /\ SalvarDone /\ gw.op = "insert" /\ gw.result = "ok"
    /\ ss.login_user = <<"b", "o", "b">>
    /\ gw.args.vendedor = Some(<<"b", "o", "b">>) /\ gw.args.marca = <<"M">>

\* The state left by the execution that served a click on "Entrar".
EntrarDone == tela.ev = "entrar" /\ tela.run = "event"

\* C19: a click on "Entrar" with an empty password, or with a user name that
\* is empty or blank, shows the error message on the login page, calls no
\* authentication, and leaves the session unauthenticated.
C19_EmptyCredentialsRejected ==
    EntrarDone /\ (strip(ss.login_user) = <<>> \/ ss.login_pass = <<>>) =>
        /\ gw = NoCall
        /\ ~ss.authenticated /\ ss.usuario = None
        /\ pc = "interactive" /\ tela.pagina = "LOGIN"
        /\ tela.msgs = <<"informe_usuario_senha">>

C19_Witness ==
    /\ EntrarDone /\ ss.login_user = <<" ", "a", "n", "a">> /\ ss.login_pass = <<>>
    /\ tela.msgs = <<"informe_usuario_senha">> /\ gw = NoCall /\ ~ss.authenticated

\* The authentication call returned ok.
AuthOk(call) == call.op = "authenticate" /\ call.result = "ok" /\ call.value.ok

\* C20: a page other than the login page is on the screen of a finished run
\* only while the session is authenticated, and insert, the item lookup and
\* the fetch of the suggestions are called only in steps that start and end
\* authenticated; authenticated goes from false to true only in the run of
\* an "Entrar" whose authenticate_user returned ok, and the user name is then
\* set; an "Entrar" that is refused (empty fields, not ok, backend error)
\* leaves the session unauthenticated on the login page with a message;
\* after "Sair" the session is unauthenticated and has no user name, and it
\* has a user name exactly while it is authenticated.
C20_LoginGate ==
    /\ [](pc # "rerun" /\ tela.pagina # "LOGIN" => ss.authenticated)
    /\ [](ss.authenticated <=> ss.usuario # None)
    /\ [](EntrarDone /\ ~AuthOk(gw) =>
            /\ ~ss.authenticated /\ pc = "interactive"
            /\ tela.pagina = "LOGIN" /\ tela.msgs # <<>>)
    /\ [](tela.ev = "sair" => ~ss.authenticated /\ ss.usuario = None)
    /\ [][gw'.op \in {"insert", "itens", "sugestoes"}
            => ss.authenticated /\ ss'.authenticated]_vars
    /\ [][~ss.authenticated /\ ss'.authenticated
            => EntrarDone' /\ AuthOk(gw') /\ ss'.usuario # None]_vars

C20_Witness ==
    /\ tela.ev = "sair" /\ tela.run = "rerun" /\ pc = "interactive"
    /\ tela.pagina = "LOGIN" /\ ~ss.authenticated
    /\ ss.login_user = <<" ", "a", "n", "a">> /\ ss.itens_ref # <<>>

\* C16 (as claimed): whenever a gateway call has failed (in the login, the
\* item lookup of a reference change, the submit or the report load) the
\* run ends interactive with an error message on the screen; after a failed
\* item lookup the screen is not the one of a lookup that found no item
\* (an empty item list and no message).
C16_FailureShowsMessage ==
    /\ gw.result # "ok" => pc = "interactive" /\ tela.msgs # <<>>
    /\ tela.ev = "referencia" /\ gw.op = "itens" /\ gw.result # "ok"
          => <<ss.itens_ref, tela.msgs>> # << <<>>, <<>> >>

\* The rows of the catalogue for a reference with '.' and ',' taken out of
\* the code and nothing else changed (NULL read as the empty text).
LinhasSemPontuacao(ref) ==
    LET rows == QueryReferencia(ref)
    IN  [k \in 1..Len(rows) |->
           << IF rows[k][1] = None THEN <<>>
              ELSE replace(replace(rows[k][1][1], "."), ","),
              IF rows[k][2] = None THEN <<>> ELSE rows[k][2][1] >>]

NoDuplicates(seq) == \A i, j \in 1..Len(seq) : seq[i] = seq[j] => i = j

\* C15 (as claimed): for a blank reference no backend call is made and no
\* item is returned; otherwise the rows of the backend are returned with
\* '.' and ',' removed from the code, each pair once, in the order met.
C15_RowsDepunctuatedOnce ==
    gw.op = "itens" =>
        /\ strip(gw.args) = <<>> => gw.attempts = 0 /\ gw.result = "ok" /\ gw.value = <<>>
        /\ strip(gw.args) # <<>> /\ gw.result = "ok" =>
              gw.value = dedup(LinhasSemPontuacao(strip(gw.args)), {})

\* C15 (amended): for a blank reference no backend call is made and no item
\* is returned; otherwise one call is made for the trimmed reference and the
\* rows are returned with '.' and ',' removed from the code and with code
\* and description trimmed (NULL as the empty text), each resulting pair
\* once, in the order met: rows that differ only in separators of the code
\* or in surrounding blanks collapse into one.
C15_RowsTrimmedDepunctuatedOnce ==
    gw.op = "itens" =>
        /\ strip(gw.args) = <<>> => gw.attempts = 0 /\ gw.result = "ok" /\ gw.value = <<>>
        /\ strip(gw.args) # <<>> =>
              /\ gw.attempts = 1
              /\ gw.result = "ok" =>
                    /\ gw.value = ExpectedItens(strip(gw.args))
                    /\ NoDuplicates(gw.value)
                    /\ \A k \in 1..Len(gw.value) :
                          \A n \in 1..2 : /\ strip(gw.value[k][n]) = gw.value[k][n]
                    /\ \A k \in 1..Len(gw.value) :
                          {".", ","} \cap Range(gw.value[k][1]) = {}

C15_Witness ==
    /\ gw.op = "itens" /\ gw.args = <<" ", "A">> /\ gw.result = "ok"
    /\ Len(QueryReferencia(<<"A">>)) = 3 /\ Len(gw.value) = 2

\* A date as carregar_sugestoes writes it: two digits, "/", two digits.
DataFormatada(s) ==
    /\ Len(s) = 5 /\ s[3] = "/"
    /\ numero(SubSeq(s, 1, 2)) \in 1..31 /\ numero(SubSeq(s, 4, 5)) \in 1..12

\* C18: normalizing what carregar_sugestoes returned gives it back
\* unchanged; what it returns has the twelve display labels as columns, in
\* "Data Lançamento" a formatted day-first date or the empty text, and in
\* "Código" a text without '.' and ',' (the empty text for NULL).
C18_NormalizarIdempotent ==
    gw.op = "sugestoes" /\ gw.result = "ok" =>
        /\ normalizar(gw.value) = gw.value
        /\ gw.value.columns = [i \in 1..Len(Colunas) |-> Rotulos[Colunas[i]]]
        /\ \A k \in 1..Len(gw.value.rows) :
              LET data == gw.value.rows[k]["Data Lancamento"]
                  codigo == gw.value.rows[k]["Codigo"]
              IN  /\ data.t = "str" /\ (data.v = <<>> \/ DataFormatada(data.v))
                  /\ codigo.t = "str" /\ {".", ","} \cap Range(codigo.v) = {}

C18_Witness ==
    /\ gw.op = "sugestoes" /\ gw.result = "ok" /\ Len(gw.value.rows) = 3
    /\ TabelaComprador[1].DATA_LANCAMENTO = Str(<<"2", "/", "1">>)
    /\ gw.value.rows[1]["Data Lancamento"] = Str(<<"0", "2", "/", "0", "1">>)
    /\ gw.value.rows[1]["Codigo"] = Str(<<"1">>)
    /\ gw.value.rows[2]["Data Lancamento"] = Str(<<>>)
    /\ gw.value.rows[2]["Codigo"] = Str(<<>>)

\* ascending without regard to case
Ascending(vals) ==
    \A i, j \in 1..Len(vals) : i < j => ~menor(lower(vals[j]), lower(vals[i]))

\* C12: the rows left by the filters are, in their order, the rows of the
\* dataset whose cell equals the selection in every filter column whose
\* selection is not "(Todos)"; with every selection at "(Todos)" they are the
\* rows of the dataset.
C12_FilterIsConjunction ==
    gw.op = "df_filtrado" =>
        LET df == gw.args[1]
            s == gw.args[2]
            fica(r) == \A f \in Range(Filtros) :
                          s[f] # Todos => r[FiltroColuna[f]] = Str(s[f])
        IN  /\ gw.value.rows = SelectSeq(df.rows, fica)
            /\ (\A f \in Range(Filtros) : s[f] = Todos) => gw.value = df

C12_Witness ==
    /\ gw.op = "df_filtrado" /\ Len(gw.args[1].rows) = 3 /\ Len(gw.value.rows) = 1
    /\ gw.args[2].f_marca = <<"M">> /\ gw.args[2].f_acao = <<"o", "k">>
    /\ gw.value.rows[1]["Referencia"] = Str(<<"b">>)

\* C14 (as claimed): the option list of a column is "(Todos)" followed by
\* the distinct non-empty texts of the column (taken without their
\* surrounding blanks), none of them twice, ascending without regard to
\* case.
C14_OptionsDistinctSorted ==
    gw.op = "_uniq" /\ gw.args[2] \in Range(gw.args[1].columns) =>
        LET col == coluna(gw.args[1], gw.args[2])
            vals == Tail(gw.value)
        IN  /\ Head(gw.value) = Todos
            /\ Range(vals) = {strip(x.v) : x \in {y \in Range(col) : y.t = "str"}} \ {<<>>}
            /\ NoDuplicates(vals)
            /\ Ascending(vals)

\* The ten filter keys of st.session_state.
ChavesFiltros == Range(Filtros) \cup {"f_desc"}

FiltersAreDefault(s) == \A f \in ChavesFiltros : s[f] = Todos

\* C13: a click on "Limpar filtros" only sets the request flag and asks for a
\* rerun, so the flag is never set in a state a finished run has drawn; the
\* rerun leaves all ten filter selections at "(Todos)" and the flag false,
\* whatever the selections were, keeps the nine form fields as they were and
\* draws the report page, on which the selections are then all "(Todos)".
C13_ClearFiltersIsFullReset ==
    /\ [](tela.ev = "limpar_filtros" /\ tela.run = "event" /\ tela.msgs = <<>>
            => pc = "rerun" /\ ss._clear_filters_request)
    /\ [](ss._clear_filters_request
            => pc = "rerun" /\ tela.ev = "limpar_filtros" /\ tela.run = "event")
    /\ [][pc = "rerun" /\ ss._clear_filters_request /\ pc' # pc =>
            /\ FiltersAreDefault(ss') /\ ~ss'._clear_filters_request
            /\ \A k \in FormFields : ss'[k] = ss[k]
            /\ pc' = "interactive" /\ tela'.pagina = "CONSULTA"]_vars
    /\ [](tela.ev = "limpar_filtros" /\ tela.run = "rerun" => FiltersAreDefault(ss))

C13_Witness ==
    /\ tela.ev = "limpar_filtros" /\ tela.run = "rerun" /\ pc = "interactive"
    /\ FiltersAreDefault(ss) /\ ~ss._clear_filters_request
    /\ ss.referencia = <<" ", "A">> /\ Len(ss.itens_ref) = 2

\* C17 (as claimed): the session a successful login opens has the nine form
\* fields (the item list, the selection, its code and description among
\* them) and the ten filter selections at their defaults, whatever was
\* entered before the logout that preceded it.
C17_LoginStartsFromDefaults ==
    EntrarDone /\ ss.authenticated => FormIsDefault(ss) /\ FiltersAreDefault(ss)

\* The sleeps between the five attempts, in half seconds: 0.5, 1, 2, 4 s.
Esperas == <<1, 2, 4, 8>>

\* C21: carregar_sugestoes ends after at most 5 attempts; it tries again
\* only after a lock conflict met in one of the first 4 attempts, having
\* slept 0.5, 1, 2, 4 s before the 2nd to 5th attempt; it returns as soon as
\* an attempt succeeds, with a DataFrame of the twelve columns (its rows may
\* be none); another error is raised by the attempt that meets it, and the
\* lock conflict of the 5th attempt is raised.
C21_SugestoesBoundedRetry ==
    gw.op = "sugestoes" =>
        LET b == gw.backend[1]
        IN  /\ gw.attempts \in 1..tentativas
            /\ gw.waits = SubSeq(Esperas, 1, gw.attempts - 1)
            /\ \A i \in 0..(gw.attempts - 2) : Attempt(b, i) = "lock"
            /\ gw.result = Attempt(b, gw.attempts - 1)
            /\ gw.result = "lock" => gw.attempts = tentativas
            /\ gw.result = "ok" =>
                  /\ gw.value # None /\ DOMAIN gw.value = {"columns", "rows"}
                  /\ Len(gw.value.columns) = Len(Colunas)
                  /\ Len(gw.value.rows) \in Nat
            /\ gw.result # "ok" => gw.value = <<>>

C21_Witness ==
    /\ gw.op = "sugestoes" /\ gw.backend[1].locks >= tentativas
    /\ gw.result = "lock" /\ gw.attempts = tentativas /\ gw.waits = Esperas

\* C22: every record handed to insert_sugestao has a reference and a brand
\* that are not blank, a quantity in 1..1000, one of the two suggestion
\* types, and an item code that is not None.
C22_InsertedRecordValid ==
    gw.op = "insert" =>
        /\ strip(gw.args.referencia) # <<>>
        /\ gw.args.quantidade \in 1..1000
        /\ strip(gw.args.marca) # <<>>
        /\ gw.args.tipo \in {"VENDA_CASADA", "VENDA_PERDIDA"}
        /\ gw.args.codigo # None

\* C23: an option of a filter column other than "(Todos)", chosen alone
\* (the eight other filters at "(Todos)"), leaves at least one row.
C23_OptionSelectsRows ==
    gw.op = "df_filtrado" =>
        LET s == gw.args[2]
            escolhidos == {f \in Range(Filtros) : s[f] # Todos}
        IN  /\ \A f \in Range(Filtros) : s[f] \in Range(opcoes(gw.args[1], FiltroColuna[f]))
            /\ Cardinality(escolhidos) = 1 => Len(gw.value.rows) >= 1

====
